---- MODULE Spec2Model ----
(***************************************************************************)
(* A model of the calculator's plugin subsystem: PluginManager             *)
(* (src/calculator/core/plugin_interface.py), the enhanced command         *)
(* registry that consumes it (src/calculator/core/enhanced_repl.py) and    *)
(* the registry, the history tracker and the read loop of                 *)
(* src/calculator/core/repl.py.                                            *)
(*                                                                         *)
(* Python dicts are functions whose DOMAIN is the set of keys present.     *)
(*                                                                         *)
(* Object identity.  A Plugin instance is known by the place that holds    *)
(* it: the candidate name whose loaded_plugins entry is bound to it, or    *)
(* Unloaded once no entry of loaded_plugins is bound to it.  No code of    *)
(* the program tells two instances apart except through loaded_plugins,    *)
(* so the instances that left it need no names of their own.  A Command    *)
(* carries the instance whose get_commands() made it.  The metadata dicts  *)
(* of plugin_info are objects on a heap, so that two references to one     *)
(* dict see each other's writes.                                           *)
(***************************************************************************)
EXTENDS Integers, Sequences, FiniteSets, TLC

VARIABLES
    loaded_plugins,   \* PluginManager.loaded_plugins: candidate name -> Plugin instance
    plugin_commands,  \* PluginManager.plugin_commands: command name -> Command
    plugin_info,      \* PluginManager.plugin_info: candidate name -> ref of a metadata dict
    info_heap,        \* the metadata dict objects: ref -> the dict's items
    sys_modules,      \* sys.modules, as far as package-form imports fill it
    sys_path,         \* sys.path, the module search path of the process
    commands,         \* EnhancedCommandRegistry.commands: key -> Command
    registry_built,   \* EnhancedCommandRegistry.__init__ has run
    cmds_view,        \* what a caller holds from get_plugin_commands()
    info_view,        \* what a caller holds from get_plugin_info()
    running,          \* REPLEngine.running
    history,          \* HistoryTracker.history
    engine,           \* where the engine is: constructed, in start(), or out of it
    last              \* the last operation: its arguments and what it returned

mgr_vars  == <<loaded_plugins, plugin_commands, plugin_info, info_heap, sys_modules,
               sys_path>>
reg_vars  == <<commands, registry_built>>
view_vars == <<cmds_view, info_view>>
repl_vars == <<running, history, engine>>
vars      == <<loaded_plugins, plugin_commands, plugin_info, info_heap, sys_modules,
               sys_path,
               commands, registry_built, cmds_view, info_view,
               running, history, engine, last>>

-----------------------------------------------------------------------------
(* Python dicts *)

EmptyDict == <<>>

Has(d, k) == k \in DOMAIN d

Put(d, k, v) == [x \in (DOMAIN d) \cup {k} |-> IF x = k THEN v ELSE d[x]]

Del(d, k) == [x \in (DOMAIN d) \ {k} |-> d[x]]

Values(d) == {d[k] : k \in DOMAIN d}

-----------------------------------------------------------------------------
(* The plugin sources a load can meet.  A source is the code of one plugin *)
(* module: what importing it does, whether it defines a Plugin subclass,   *)
(* and what that class's constructor and methods do.  "raise" is an        *)
(* exception derived from Exception.                                       *)

\* A command whose get_name() raises.
NameRaises == "<get_name raises>"

PluginSource(imp, cls, ctor, init, meta, getc, cmds, cleanup) ==
    [import |-> imp, has_class |-> cls, ctor |-> ctor, initialize |-> init,
     metadata |-> meta, get_commands |-> getc, cmds |-> cmds, cleanup |-> cleanup]

Behaviour(src) ==
    CASE src = "statistics"    -> PluginSource("ok", TRUE, "ok", "true", "ok", "ok", <<"mean", "mode", "variance">>, "true")
      [] src = "scientific"    -> PluginSource("ok", TRUE, "ok", "true", "ok", "ok", <<"sqrt">>, "true")
      [] src = "mean_like"     -> PluginSource("ok", TRUE, "ok", "true", "ok", "ok", <<"mean">>, "false")
      [] src = "import_raise"  -> PluginSource("raise", TRUE, "ok", "true", "ok", "ok", <<"sqrt">>, "true")
      [] src = "no_class"      -> PluginSource("ok", FALSE, "ok", "true", "ok", "ok", <<>>, "true")
      [] src = "ctor_raise"    -> PluginSource("ok", TRUE, "raise", "true", "ok", "ok", <<"sqrt">>, "true")
      [] src = "init_false"    -> PluginSource("ok", TRUE, "ok", "false", "ok", "ok", <<"sqrt">>, "true")
      [] src = "init_raise"    -> PluginSource("ok", TRUE, "ok", "raise", "ok", "ok", <<"mode">>, "true")
      [] src = "meta_raise"    -> PluginSource("ok", TRUE, "ok", "true", "raise", "ok", <<"sqrt">>, "true")
      [] src = "cmds_raise"    -> PluginSource("ok", TRUE, "ok", "true", "ok", "raise", <<>>, "true")
      [] src = "name_raise"    -> PluginSource("ok", TRUE, "ok", "true", "ok", "ok", <<"mode", NameRaises>>, "true")
      [] src = "cleanup_raise" -> PluginSource("ok", TRUE, "ok", "true", "ok", "ok", <<"sqrt">>, "raise")
      [] src = "custom"        -> PluginSource("ok", TRUE, "ok", "true", "ok", "ok", <<"add", "Sqrt">>, "true")

Sources == {"statistics", "scientific", "mean_like", "import_raise", "no_class",
            "ctor_raise", "init_false", "init_raise", "meta_raise", "cmds_raise",
            "name_raise", "cleanup_raise", "custom"}

\* The candidate names load_plugin and unload_plugin are called with.
Candidates == {"statistics_plugin", "scientific_plugin"}

\* The names the sources' commands answer get_name() with.
CmdNames == {"mean", "mode", "variance", "sqrt", "add", "Sqrt"}

\* A plugin_path: a single file (os.path.isfile) or a package directory,
\* and the source found there.
File(src) == [kind |-> "file", src |-> src]
Package(src) == [kind |-> "package", src |-> src]

\* The calls of load_plugin(plugin_name, plugin_path): every source but the
\* third-party one, which load_all_plugins finds in a directory, as a
\* file under the first candidate name; under the second the sources that
\* share or add command names, one that fails, and the package form with a
\* good source and with one whose import raises.
LoadInputs ==
    {<<"statistics_plugin", File(s)>> : s \in Sources \ {"custom"}}
    \cup {<<"scientific_plugin", File(s)>> : s \in {"scientific", "mean_like", "init_false"}}
    \cup {<<"scientific_plugin", Package(s)>> : s \in {"scientific", "import_raise"}}

\* The instance of a Command whose plugin left loaded_plugins, and the
\* maker of the commands the registry sets up itself.
Unloaded == "<unloaded>"
Core == "<core>"

Command(name, plugin) == [name |-> name, plugin |-> plugin]

\* The instance bound to loaded_plugins[c] leaves it: every Command it made
\* is from now on the command of an unloaded instance.
Retire(cmds, c) ==
    [k \in DOMAIN cmds |->
        IF cmds[k].plugin = c THEN Command(cmds[k].name, Unloaded) ELSE cmds[k]]

RetireAll(cmds, cs) ==
    [k \in DOMAIN cmds |->
        IF cmds[k].plugin \in cs THEN Command(cmds[k].name, Unloaded) ELSE cmds[k]]

-----------------------------------------------------------------------------
(* The manager's state as one value, so that one call can follow another.  *)

Mgr == [loaded_plugins |-> loaded_plugins, plugin_commands |-> plugin_commands,
        plugin_info |-> plugin_info, info_heap |-> info_heap,
        sys_modules |-> sys_modules, sys_path |-> sys_path]

\* sys.path as the process starts: the script's directory, then the
\* installed packages.
StartPath == <<"<script dir>", "<site-packages>">>

\* PluginManager.__init__
NewManager == [loaded_plugins |-> EmptyDict, plugin_commands |-> EmptyDict,
               plugin_info |-> EmptyDict, info_heap |-> EmptyDict,
               sys_modules |-> EmptyDict, sys_path |-> StartPath]

\* A metadata dict lives while plugin_info or a caller (ext) refers to it.
Collect(m, ext) ==
    [m EXCEPT !.info_heap =
        [r \in (DOMAIN @) \cap (Values(m.plugin_info) \cup ext) |-> @[r]]]

\* A fresh dict object for plugin_info[c]: the least <<c, i>> that nothing
\* refers to once plugin_info[c] is bound to it, that is, that no caller
\* (ext) holds.  The dict plugin_info[c] was bound to gives up its name
\* unless a caller holds it.
NewRef(ext, c) ==
    LET free == {i \in 1 .. 3 : <<c, i>> \notin ext}
    IN  <<c, CHOOSE i \in free : \A j \in free : i <= j>>

-----------------------------------------------------------------------------
(* PluginManager.load_plugin *)

\* os.path.dirname(plugin_path): the plugin directory the candidate was
\* found in.
dirname(plugin_path) == "<plugin dir>"

\* Line 95: sys.path.insert(0, ...).
path_insert(path, dir) == <<dir>> \o path

\* The pop is skipped when the import raises: no "finally".
path_pop_unless_raised(path, raised) == IF raised THEN path ELSE Tail(path)

\* Lines 96-99: "finally: sys.path.pop(0)" runs whether or not the import
\* raised.
path_pop(path, raised) == Tail(path)

\* importlib.import_module under the extended path: it answers from
\* sys.modules when a module of that name is already there and enters the
\* module there when its import succeeds.  The module's top-level code
\* leaves sys.path alone.
import_package(m, plugin_name, plugin_path, path) ==
    IF Has(m.sys_modules, plugin_name)
    THEN [raised |-> FALSE, module |-> m.sys_modules[plugin_name],
          sys_modules |-> m.sys_modules, sys_path |-> path]
    ELSE IF Behaviour(plugin_path.src).import = "raise"
    THEN [raised |-> TRUE, module |-> plugin_path.src,
          sys_modules |-> m.sys_modules, sys_path |-> path]
    ELSE [raised |-> FALSE, module |-> plugin_path.src,
          sys_modules |-> Put(m.sys_modules, plugin_name, plugin_path.src),
          sys_path |-> path]

\* Lines 84-99: load the module.  A single file is executed afresh on every
\* load and sys.path is not touched; a package is imported by name with the
\* candidate's directory put in front of sys.path for the import.
import_module(m, plugin_name, plugin_path) ==
    IF plugin_path.kind = "file"
    THEN [raised |-> Behaviour(plugin_path.src).import = "raise",
          module |-> plugin_path.src, sys_modules |-> m.sys_modules,
          sys_path |-> m.sys_path]
    ELSE LET Popped(imp) ==
                 [imp EXCEPT !.sys_path = path_pop(imp.sys_path, imp.raised)]
         IN  Popped(import_package(m, plugin_name, plugin_path,
                        path_insert(m.sys_path, dirname(plugin_path))))

\* _find_plugin_class: a subclass of Plugin among the module's members, or None.
find_plugin_class(module) == Behaviour(module).has_class

\* initialize() answering False is let through; only its exception counts.
InitializeFails_only_on_exception(result) == result = "raise"

\* Line 108: "if not plugin_instance.initialize(): raise RuntimeError"; an
\* exception of initialize() itself leaves the try body the same way.
InitializeFails(result) == result # "true"

\* Lines 113-118: the metadata snapshot of one instance.
MetadataOf(src, plugin_path) ==
    [name |-> src, version |-> "1.0.0", description |-> src, path |-> plugin_path.kind]

\* A name that is in plugin_commands already is taken out of it.
RECURSIVE register_commands_toggle(_, _, _)
register_commands_toggle(pc, cmds, plugin) ==
    IF cmds = <<>> THEN [plugin_commands |-> pc, raised |-> FALSE]
    ELSE IF Head(cmds) = NameRaises THEN [plugin_commands |-> pc, raised |-> TRUE]
    ELSE register_commands_toggle(
             IF Has(pc, Head(cmds)) THEN Del(pc, Head(cmds))
             ELSE Put(pc, Head(cmds), Command(Head(cmds), plugin)),
             Tail(cmds), plugin)

\* A name that is in plugin_commands already keeps the command it has.
RECURSIVE register_commands_keep_first(_, _, _)
register_commands_keep_first(pc, cmds, plugin) ==
    IF cmds = <<>> THEN [plugin_commands |-> pc, raised |-> FALSE]
    ELSE IF Head(cmds) = NameRaises THEN [plugin_commands |-> pc, raised |-> TRUE]
    ELSE register_commands_keep_first(
             IF Has(pc, Head(cmds)) THEN pc
             ELSE Put(pc, Head(cmds), Command(Head(cmds), plugin)),
             Tail(cmds), plugin)

\* Lines 122-124: the commands in order, each under its own get_name(); the
\* loop ends at the first get_name() that raises, with the earlier commands in.
RECURSIVE register_commands(_, _, _)
register_commands(pc, cmds, plugin) ==
    IF cmds = <<>> THEN [plugin_commands |-> pc, raised |-> FALSE]
    ELSE IF Head(cmds) = NameRaises THEN [plugin_commands |-> pc, raised |-> TRUE]
    ELSE register_commands(Put(pc, Head(cmds), Command(Head(cmds), plugin)),
                           Tail(cmds), plugin)

\* What the try body of load_plugin leaves behind when a stage raises.
LoadRaised(m, stage, module, init, retired) ==
    [m |-> m, raised |-> TRUE, stage |-> stage, module |-> module,
     initialize |-> init, retired |-> retired]

\* Lines 84-127, the try body.
load_body(m, plugin_name, plugin_path, ext) ==
    LET imp == import_module(m, plugin_name, plugin_path)
        m1  == [m EXCEPT !.sys_modules = imp.sys_modules, !.sys_path = imp.sys_path]
        src == imp.module
        b   == Behaviour(src)
        \* 112: loaded_plugins[plugin_name] is bound to the new instance
        m2  == [m1 EXCEPT !.loaded_plugins = Put(@, plugin_name, [src |-> src]),
                          !.plugin_commands = Retire(@, plugin_name)]
        ref == NewRef(ext, plugin_name)
        \* 113-118: plugin_info[plugin_name] is bound to a new dict
        m3  == [m2 EXCEPT !.plugin_info = Put(@, plugin_name, ref),
                          !.info_heap = Put(@, ref, MetadataOf(src, plugin_path))]
        reg == register_commands(m3.plugin_commands, b.cmds, plugin_name)
        m4  == [m3 EXCEPT !.plugin_commands = reg.plugin_commands]
    IN  IF imp.raised THEN LoadRaised(m1, "import", src, "not_called", {})
        ELSE IF ~find_plugin_class(src)
             THEN LoadRaised(m1, "find_class", src, "not_called", {})
        ELSE IF b.ctor = "raise"
             THEN LoadRaised(m1, "instantiate", src, "not_called", {})
        ELSE IF InitializeFails(b.initialize)
             THEN LoadRaised(m1, "initialize", src, b.initialize, {})
        ELSE IF b.metadata = "raise"
             THEN LoadRaised(m2, "metadata", src, b.initialize, {plugin_name})
        ELSE IF b.get_commands = "raise"
             THEN LoadRaised(m3, "get_commands", src, b.initialize, {plugin_name})
        ELSE IF reg.raised
             THEN LoadRaised(m4, "get_name", src, b.initialize, {plugin_name})
        ELSE [m |-> m4, raised |-> FALSE, stage |-> "done", module |-> src,
              initialize |-> b.initialize, retired |-> {plugin_name}]

\* The try block ends once the plugin is initialized: what the metadata
\* getters, get_commands() or a get_name() raise is not caught.
LoadCaught_until_initialize(stage) ==
    stage \in {"import", "find_class", "instantiate", "initialize"}

\* Lines 83 and 129: the try block spans every stage of the body, and
\* "except Exception" takes whatever a stage raised.
LoadCaught(stage) == TRUE

\* load_plugin: True from the end of the body, False from the handler.
load_plugin(m, plugin_name, plugin_path, ext) ==
    LET Outcome(b) ==
            [m |-> Collect(b.m, ext), stage |-> b.stage, module |-> b.module,
             initialize |-> b.initialize, retired |-> b.retired,
             ret |-> IF ~b.raised THEN "true"
                     ELSE IF LoadCaught(b.stage) THEN "false" ELSE "raise"]
    IN  Outcome(load_body(m, plugin_name, plugin_path, ext))

-----------------------------------------------------------------------------
(* PluginManager.unload_plugin *)

\* Line 163: "if plugin_name not in self.loaded_plugins".
IsLoaded(m, plugin_name) == Has(m.loaded_plugins, plugin_name)

\* The early return answers True.
NotLoadedResult_true == "true"

\* Line 164: what the call answers for a name that is not loaded.
NotLoadedResult == "false"

\* The loop is left after its first command.
remove_commands_first_only(pc, cmds) ==
    IF cmds = <<>> THEN [plugin_commands |-> pc, raised |-> FALSE]
    ELSE IF Head(cmds) = NameRaises THEN [plugin_commands |-> pc, raised |-> TRUE]
    ELSE [plugin_commands |-> IF Has(pc, Head(cmds)) THEN Del(pc, Head(cmds)) ELSE pc,
          raised |-> FALSE]

\* Lines 172-175: every command of the plugin, by name: "if command_name in
\* self.plugin_commands: del".  The loop ends at a get_name() that raises.
RECURSIVE remove_commands(_, _)
remove_commands(pc, cmds) ==
    IF cmds = <<>> THEN [plugin_commands |-> pc, raised |-> FALSE]
    ELSE IF Head(cmds) = NameRaises THEN [plugin_commands |-> pc, raised |-> TRUE]
    ELSE remove_commands(IF Has(pc, Head(cmds)) THEN Del(pc, Head(cmds)) ELSE pc,
                         Tail(cmds))

UnloadRaised(m, stage, cleanup, retired) ==
    [m |-> m, raised |-> TRUE, stage |-> stage, cleanup |-> cleanup,
     retired |-> retired]

\* Lines 167-181, the try body.  The result of cleanup() is not looked at.
unload_body(m, plugin_name) ==
    LET plugin == m.loaded_plugins[plugin_name]
        b   == Behaviour(plugin.src)
        rem == remove_commands(m.plugin_commands, b.cmds)
        m1  == [m EXCEPT !.plugin_commands = rem.plugin_commands]
        \* 178: del self.loaded_plugins[plugin_name]
        m2  == [m1 EXCEPT !.loaded_plugins = Del(@, plugin_name),
                          !.plugin_commands = Retire(@, plugin_name)]
        \* 179: del self.plugin_info[plugin_name], a KeyError without the key
        m3  == [m2 EXCEPT !.plugin_info = Del(@, plugin_name)]
    IN  IF b.cleanup = "raise" THEN UnloadRaised(m, "cleanup", b.cleanup, {})
        ELSE IF b.get_commands = "raise"
             THEN UnloadRaised(m, "get_commands", b.cleanup, {})
        ELSE IF rem.raised THEN UnloadRaised(m1, "get_name", b.cleanup, {})
        ELSE IF ~Has(m2.plugin_info, plugin_name)
             THEN UnloadRaised(m2, "del_plugin_info", b.cleanup, {plugin_name})
        ELSE [m |-> m3, raised |-> FALSE, stage |-> "done", cleanup |-> b.cleanup,
              retired |-> {plugin_name}]

\* unload_plugin: what is left, what is returned, and on which plugins
\* cleanup() was called.
unload_plugin(m, plugin_name, ext) ==
    IF ~IsLoaded(m, plugin_name)
    THEN [m |-> m, ret |-> NotLoadedResult, stage |-> "not_loaded",
          cleanup |-> "not_called", cleanup_called |-> {}, retired |-> {}]
    ELSE LET Outcome(b) ==
                 [m |-> Collect(b.m, ext), ret |-> IF b.raised THEN "false" ELSE "true",
                  stage |-> b.stage, cleanup |-> b.cleanup,
                  cleanup_called |-> {plugin_name}, retired |-> b.retired]
         IN  Outcome(unload_body(m, plugin_name))

-----------------------------------------------------------------------------
(* PluginManager.discover_plugins and load_all_plugins *)

\* The number of children a plugin directory has at most.
MaxEntries == 2

\* A child of a plugin directory.  Its name is stem + ext, so that
\* item.endswith('.py') is ext = ".py" and item[:-3] is the stem.
FileEntry(stem, ext, src) ==
    [stem |-> stem, ext |-> ext, isdir |-> FALSE, has_init |-> FALSE, src |-> src]
DirEntry(stem, has_init, src) ==
    [stem |-> stem, ext |-> "", isdir |-> TRUE, has_init |-> has_init, src |-> src]

\* The children the directories are filled from: the statistics plugin,
\* files of the same name whose plugin fails to initialize or to give its
\* commands, the package-init file, the scientific plugin as a package, a
\* third-party plugin as a file, and a directory that is none.
Entries ==
    {FileEntry("statistics_plugin", ".py", "statistics"),
     FileEntry("statistics_plugin", ".py", "init_false"),
     FileEntry("statistics_plugin", ".py", "cmds_raise"),
     FileEntry("scientific_plugin", ".py", "custom"),
     FileEntry("__init__", ".py", "no_class"),
     DirEntry("scientific_plugin", TRUE, "scientific"),
     DirEntry("__pycache__", FALSE, "no_class")}

ItemName(e) == <<e.stem, e.ext>>

\* The child's name as os.listdir gives it: stem and ext in one string.
Item(e) ==
    IF e.ext = "" THEN e.stem
    ELSE CASE ItemName(e) = <<"statistics_plugin", ".py">> -> "statistics_plugin.py"
           [] ItemName(e) = <<"scientific_plugin", ".py">> -> "scientific_plugin.py"
           [] ItemName(e) = <<"__init__", ".py">> -> "__init__.py"
           [] ItemName(e) = <<"README", ".md">> -> "README.md"

\* os.listdir of one directory: children with different names, in some order.
Listings ==
    {l \in UNION {[1 .. n -> Entries] : n \in 0 .. MaxEntries} :
        \A i, j \in DOMAIN l : i # j => ItemName(l[i]) # ItemName(l[j])}

\* Lines 48 and 53-55: the directories the manager was given, then the
\* default one.
plugin_dirs(given) == given \o <<"default">>

\* PluginManager(["extra"]), the manager whose methods are called directly.
GivenDirs == <<"extra">>

\* What is on disk: each directory is missing or has a listing.
FileSystems ==
    [{"extra", "default"} ->
        {[exists |-> FALSE, listing |-> <<>>]}
        \cup {[exists |-> TRUE, listing |-> l] : l \in Listings}]

\* Lines 65-77: the candidates of one listing, in listing order.
RECURSIVE discover_in(_)
discover_in(listing) ==
    IF listing = <<>> THEN <<>>
    ELSE LET item == Head(listing)
             rest == discover_in(Tail(listing))
         IN  IF item.ext = ".py" /\ Item(item) # "__init__.py"
             THEN <<[name |-> item.stem,
                     path |-> IF item.isdir THEN Package(item.src) ELSE File(item.src)]>>
                  \o rest
             ELSE IF item.isdir /\ item.has_init
             THEN <<[name |-> Item(item), path |-> Package(item.src)]>> \o rest
             ELSE rest

\* Lines 61-63 and 79: directory after directory, a missing one skipped.
RECURSIVE discover_plugins(_, _)
discover_plugins(dirs, fs) ==
    IF dirs = <<>> THEN <<>>
    ELSE (IF fs[Head(dirs)].exists THEN discover_in(fs[Head(dirs)].listing) ELSE <<>>)
         \o discover_plugins(Tail(dirs), fs)

\* A directory named stem + ".py".  Importing the candidate name with the
\* plugin directory in front of sys.path finds no module there.
PyDirEntry(stem, has_init) ==
    [stem |-> stem, ext |-> ".py", isdir |-> TRUE, has_init |-> has_init,
     src |-> "import_raise"]

\* Children of every kind that lines 69-77 tell apart: a module file, a
\* file of another suffix, the package-init file, directories with and
\* without a package-init file, and directories whose name ends in ".py".
DiscoveryEntries ==
    {FileEntry("statistics_plugin", ".py", "statistics"),
     FileEntry("README", ".md", "no_class"),
     FileEntry("__init__", ".py", "no_class"),
     DirEntry("scientific_plugin", TRUE, "scientific"),
     DirEntry("__pycache__", FALSE, "no_class"),
     PyDirEntry("scientific_plugin", TRUE),
     PyDirEntry("scientific_plugin", FALSE),
     PyDirEntry("__init__", TRUE)}

DiscoveryListings ==
    {l \in UNION {[1 .. n -> DiscoveryEntries] : n \in 0 .. MaxEntries} :
        \A i, j \in DOMAIN l : i # j => ItemName(l[i]) # ItemName(l[j])}

\* What is on disk for discovery: the directory the manager was given has
\* any of the listings, the default one at most one child.
DiscoveryFileSystems ==
    {fs \in [{"extra", "default"} ->
                {[exists |-> FALSE, listing |-> <<>>]}
                \cup {[exists |-> TRUE, listing |-> l] : l \in DiscoveryListings}] :
        Len(fs["default"].listing) <= 1}

\* The first outcome stored under a name is kept.
StoreOutcome_keep_first(results, name, ret) ==
    IF Has(results, name) THEN results ELSE Put(results, name, ret)

\* Line 149: results[plugin_name] = the outcome.
StoreOutcome(results, name, ret) == Put(results, name, ret)

\* The loop ends at the first candidate that fails to load.
RECURSIVE load_each_until_failure(_, _, _, _, _, _)
load_each_until_failure(m, discovered, results, outcomes, retired, ext) ==
    IF discovered = <<>>
    THEN [m |-> m, results |-> results, outcomes |-> outcomes, retired |-> retired,
          completed |-> TRUE]
    ELSE LET After(r) ==
                 IF r.ret # "true"
                 THEN [m |-> r.m,
                       results |-> StoreOutcome(results, Head(discovered).name, r.ret),
                       outcomes |-> Append(outcomes, r.ret),
                       retired |-> retired \cup r.retired, completed |-> TRUE]
                 ELSE load_each_until_failure(
                          r.m, Tail(discovered),
                          StoreOutcome(results, Head(discovered).name, r.ret),
                          Append(outcomes, r.ret), retired \cup r.retired, ext)
         IN  After(load_plugin(m, Head(discovered).name, Head(discovered).path, ext))

\* Lines 148-149: load_plugin for one candidate after the other, each
\* outcome stored under the candidate's name.  Nothing in the loop looks at
\* an outcome; an exception out of load_plugin would end it.
RECURSIVE load_each(_, _, _, _, _, _)
load_each(m, discovered, results, outcomes, retired, ext) ==
    IF discovered = <<>>
    THEN [m |-> m, results |-> results, outcomes |-> outcomes, retired |-> retired,
          completed |-> TRUE]
    ELSE LET After(r) ==
                 IF r.ret = "raise"
                 THEN [m |-> r.m, results |-> results,
                       outcomes |-> Append(outcomes, r.ret),
                       retired |-> retired \cup r.retired, completed |-> FALSE]
                 ELSE load_each(r.m, Tail(discovered),
                                StoreOutcome(results, Head(discovered).name, r.ret),
                                Append(outcomes, r.ret), retired \cup r.retired, ext)
         IN  After(load_plugin(m, Head(discovered).name, Head(discovered).path, ext))

\* load_all_plugins
load_all_plugins(m, dirs, fs, ext) ==
    load_each(m, discover_plugins(dirs, fs), EmptyDict, <<>>, {}, ext)

-----------------------------------------------------------------------------
(* The query methods of PluginManager *)

\* The manager hands out plugin_commands itself.
get_plugin_commands_same_object(m) == [same_object |-> TRUE, map |-> m.plugin_commands]

\* get_plugin_commands: self.plugin_commands.copy(), a new dict with the
\* same values.
get_plugin_commands(m) == [same_object |-> FALSE, map |-> m.plugin_commands]

\* get_plugin_info: self.plugin_info.copy(), a new outer dict whose values
\* are the metadata dicts plugin_info itself refers to.
get_plugin_info(m) == [same_object |-> FALSE, map |-> m.plugin_info]

\* What plugin_info says, the metadata dicts read through their references.
InfoItems(m) == [c \in DOMAIN m.plugin_info |-> m.info_heap[m.plugin_info[c]]]

-----------------------------------------------------------------------------
(* CommandRegistry and EnhancedCommandRegistry *)

\* CommandRegistry.register_command
register_command(reg, command) == Put(reg, command.name, command)

\* CommandRegistry._setup_basic_commands: the arithmetic commands, help,
\* exit, and the exit command once more under "quit".
setup_basic_commands ==
    LET r1 == register_command(EmptyDict, Command("add", Core))
        r2 == register_command(r1, Command("subtract", Core))
        r3 == register_command(r2, Command("multiply", Core))
        r4 == register_command(r3, Command("divide", Core))
        r5 == register_command(r4, Command("help", Core))
        r6 == register_command(r5, Command("exit", Core))
    IN  Put(r6, "quit", Command("exit", Core))

\* What a user types for a command name.
TypedNames == {"mean", "Mean", "MODE", "mode", "sqrt", "SQRT", "Sqrt", "add", "ADD",
               "quit", "QUIT", "menu", "bogus"}

\* str.lower() on the strings that are typed or are command names.
Lower(name) ==
    CASE name = "Mean" -> "mean"
      [] name = "MODE" -> "mode"
      [] name = "SQRT" -> "sqrt"
      [] name = "Sqrt" -> "sqrt"
      [] name = "ADD" -> "add"
      [] name = "QUIT" -> "quit"
      [] name = "HISTORY" -> "history"
      [] name = "History" -> "history"
      [] OTHER -> name

\* CommandRegistry.get_command: self.commands.get(name.lower()), the
\* command or nothing.
get_command(reg, name) == IF Has(reg, Lower(name)) THEN <<reg[Lower(name)]>> ELSE <<>>

\* Lines 19-21 of enhanced_repl.py: every plugin command under its key.
merge_plugin_commands(reg, view) ==
    [k \in (DOMAIN reg) \cup (DOMAIN view.map) |->
        IF k \in DOMAIN view.map THEN view.map[k] ELSE reg[k]]

\* EnhancedCommandRegistry.__init__ with its PluginManager(), a manager of
\* the default directory alone: the basic commands, load_all_plugins, the
\* plugin commands merged in, the menu command.
setup_plugin_commands(m, fs, ext) ==
    LET Merged(all) ==
            [m |-> all.m, load_results |-> all.results,
             commands |-> register_command(
                 merge_plugin_commands(setup_basic_commands, get_plugin_commands(all.m)),
                 Command("menu", Core))]
    IN  Merged(load_all_plugins(m, plugin_dirs(<<>>), fs, ext))

-----------------------------------------------------------------------------
(* HistoryTracker, and the display of the engine *)

\* The number of entries the display shows at most (history[-10:], and the
\* test "len(history) > 10").
HistoryShown == 10

\* HistoryTracker.add_entry.  The timestamp of an entry, the wall clock at
\* the time of the call, is left out: nothing reads it but the display.
add_entry(h, command, args, result, success) ==
    Append(h, [command |-> command, args |-> args, result |-> result,
               success |-> success])

\* HistoryTracker.get_history: a copy of the list.
get_history(h) == h

\* HistoryTracker.clear_history
clear_history(h) == <<>>

\* The slice takes the first entries: history[:10].
history_head(h) == SubSeq(h, 1, IF Len(h) > HistoryShown THEN HistoryShown ELSE Len(h))

\* history[-10:]: from ten before the end, or from the start of a shorter list.
history_tail(h) ==
    SubSeq(h, IF Len(h) > HistoryShown THEN Len(h) - HistoryShown + 1 ELSE 1, Len(h))

\* REPLEngine._show_history: what is printed, the entries in order and the
\* "... (k more entries)" line if there is one.
show_history(h) ==
    IF get_history(h) = <<>>
    THEN [none |-> TRUE, entries |-> <<>>, more |-> <<>>]
    ELSE [none |-> FALSE, entries |-> history_tail(get_history(h)),
          more |-> IF Len(get_history(h)) > HistoryShown
                   THEN <<Len(get_history(h)) - HistoryShown>> ELSE <<>>]

-----------------------------------------------------------------------------
(* The commands' execute(args), by what it returns or raises *)

\* The argument strings float() takes.
Numbers == {"0", "1", "2", "16", "-1", "1e308", "-1e308"}

AllNumbers(args) == \A i \in DOMAIN args : args[i] \in Numbers

Returns(kind) == [raised |-> FALSE, kind |-> kind]
Raises(kind) == [raised |-> TRUE, kind |-> kind]

\* ArithmeticCommand.execute: two numbers, and no division by zero; every
\* failure leaves as a ValueError.
ArithmeticExecute(operation, args) ==
    IF Len(args) # 2 THEN Raises("ValueError")
    ELSE IF ~AllNumbers(args) THEN Raises("ValueError")
    ELSE IF operation = "divide" /\ args[2] = "0" THEN Raises("ValueError")
    ELSE Returns("number")

\* ScientificCommand.execute for sqrt: one number; math.sqrt of a negative
\* number is a ValueError.
SqrtExecute(args) ==
    IF Len(args) # 1 THEN Raises("ValueError")
    ELSE IF ~AllNumbers(args) THEN Raises("ValueError")
    ELSE IF args[1] \in {"-1", "-1e308"} THEN Raises("ValueError")
    ELSE Returns("number")

\* StatisticsCommand.execute: at least min_args numbers.  Only ValueError
\* and StatisticsError are caught there: the OverflowError of
\* statistics.variance on data whose variance no float holds leaves as it is.
StatisticsExecute(operation, args) ==
    IF Len(args) < (IF operation = "variance" THEN 2 ELSE 1) THEN Raises("ValueError")
    ELSE IF ~AllNumbers(args) THEN Raises("ValueError")
    ELSE IF /\ operation = "variance"
            /\ \E i, j \in DOMAIN args : args[i] = "1e308" /\ args[j] = "-1e308"
         THEN Raises("OverflowError")
    ELSE Returns("number")

\* command.execute(args).  The commands of the registry itself go by their
\* class; a plugin's command goes by its name, and a third-party command
\* returns a number.
Execute(command, args) ==
    IF command.plugin = Core
    THEN CASE command.name = "exit" -> Returns("EXIT")
           [] command.name \in {"help", "menu"} -> Returns("string")
           [] OTHER -> ArithmeticExecute(command.name, args)
    ELSE CASE command.name = "sqrt" -> SqrtExecute(args)
           [] command.name \in {"mean", "mode", "variance"} ->
                 StatisticsExecute(command.name, args)
           [] OTHER -> Returns("number")

-----------------------------------------------------------------------------
(* REPLEngine *)

\* A line as input() returns it, by its whitespace-separated parts: the
\* empty sequence is a line that strip() leaves empty.
Lines ==
    {<<>>, <<"history">>, <<"HISTORY">>, <<"history", "1">>,
     <<"add", "1", "2">>, <<"ADD", "1">>, <<"divide", "1", "0">>,
     <<"sqrt", "16">>, <<"sqrt", "-1">>, <<"Sqrt", "16">>,
     <<"variance", "1", "2">>, <<"variance", "1e308", "-1e308">>,
     <<"bogus", "1">>, <<"exit">>, <<"QUIT">>, <<"help">>, <<"menu">>}

\* The comparison is made without lower().
IsHistoryLine_case_sensitive(line) == Len(line) = 1 /\ line[1] = "history"

\* Line 168: user_input.lower() == "history".
IsHistoryLine(line) == Len(line) = 1 /\ Lower(line[1]) = "history"

\* REPLEngine._process_command: what the history and the running flag are
\* afterwards, and what leaves the method.
process_command(reg, h, line) ==
    LET command_name == Lower(line[1])
        args == Tail(line)
        command == get_command(reg, command_name)
        Done(x) ==
            IF x.raised /\ x.kind = "ValueError"
            THEN [history |-> add_entry(h, command_name, args, "Error", FALSE),
                  running |-> TRUE, raised |-> FALSE, outcome |-> "ValueError"]
            ELSE IF x.raised
            THEN [history |-> h, running |-> TRUE, raised |-> TRUE, outcome |-> x.kind]
            ELSE IF x.kind = "EXIT"
            THEN [history |-> h, running |-> FALSE, raised |-> FALSE, outcome |-> "EXIT"]
            ELSE [history |-> add_entry(h, command_name, args, x.kind, TRUE),
                  running |-> TRUE, raised |-> FALSE, outcome |-> x.kind]
    IN  IF command = <<>>
        THEN [history |-> add_entry(h, command_name, args, "Unknown command", FALSE),
              running |-> TRUE, raised |-> FALSE, outcome |-> "unknown"]
        ELSE Done(Execute(command[1], args))

\* One pass of the loop of start(), lines 161-178, on what input() gives: a
\* line, a KeyboardInterrupt or an EOFError.  "leaves" is how the pass ends:
\* on to the loop test, out by break, or out with an exception.
loop_pass(reg, h, input) ==
    IF input.kind = "KeyboardInterrupt"
    THEN [history |-> h, running |-> TRUE, leaves |-> "continue", outcome |-> "interrupt"]
    ELSE IF input.kind = "EOFError"
    THEN [history |-> h, running |-> TRUE, leaves |-> "break", outcome |-> "eof"]
    ELSE IF input.line = <<>>
    THEN [history |-> h, running |-> TRUE, leaves |-> "continue", outcome |-> "blank"]
    ELSE IF IsHistoryLine(input.line)
    THEN [history |-> h, running |-> TRUE, leaves |-> "continue", outcome |-> "history"]
    ELSE LET After(r) ==
                 [history |-> r.history, running |-> r.running,
                  leaves |-> IF r.raised THEN "raise" ELSE "continue",
                  outcome |-> r.outcome]
         IN  After(process_command(reg, h, input.line))

\* What input() gives.
Inputs ==
    {[kind |-> "line", line |-> l] : l \in Lines}
    \cup {[kind |-> "KeyboardInterrupt", line |-> <<>>],
          [kind |-> "EOFError", line |-> <<>>]}

-----------------------------------------------------------------------------
(* The state machine *)

\* The dict objects that references outside the manager hold: what a
\* caller keeps from get_plugin_info().
ExtRefs == UNION {Values(v.map) : v \in Values(info_view)}

SetMgr(m) ==
    /\ loaded_plugins' = m.loaded_plugins
    /\ plugin_commands' = m.plugin_commands
    /\ plugin_info' = m.plugin_info
    /\ info_heap' = m.info_heap
    /\ sys_modules' = m.sys_modules
    /\ sys_path' = m.sys_path

\* The Commands held outside the manager follow their instances.
SetHolders(retired) ==
    /\ commands' = RetireAll(commands, retired)
    /\ cmds_view' = [i \in DOMAIN cmds_view |->
                        [cmds_view[i] EXCEPT !.map = RetireAll(@, retired)]]
    /\ UNCHANGED <<registry_built, info_view, repl_vars>>

Init ==
    /\ loaded_plugins = NewManager.loaded_plugins
    /\ plugin_commands = NewManager.plugin_commands
    /\ plugin_info = NewManager.plugin_info
    /\ info_heap = NewManager.info_heap
    /\ sys_modules = NewManager.sys_modules
    /\ sys_path = NewManager.sys_path
    /\ commands = EmptyDict
    /\ registry_built = FALSE
    /\ cmds_view = <<>>
    /\ info_view = <<>>
    /\ running = FALSE
    /\ history = <<>>
    /\ engine = "constructed"
    /\ last = [op |-> "init"]

\* The names of a plugin's commands that unload_plugin(plugin_name) takes
\* from other plugins' instances.
Evicted(m, plugin_name, after) ==
    {n \in DOMAIN m.plugin_commands :
        n \notin DOMAIN after.plugin_commands /\ m.plugin_commands[n].plugin # plugin_name}

\* The candidate name holds an instance of this very module already.
IsReload(m, plugin_name, module) ==
    Has(m.loaded_plugins, plugin_name) /\ m.loaded_plugins[plugin_name].src = module

\* manager.load_plugin(plugin_name, plugin_path)
LoadPlugin(plugin_name, plugin_path) ==
    \E r \in {load_plugin(Mgr, plugin_name, plugin_path, ExtRefs)} :
        /\ SetMgr(r.m)
        /\ SetHolders(r.retired)
        /\ last' = [op |-> "load_plugin", ret |-> r.ret, stage |-> r.stage,
                    initialize |-> r.initialize,
                    reload |-> IsReload(Mgr, plugin_name, r.module),
                    package |-> plugin_path.kind = "package"]

\* manager.unload_plugin(plugin_name)
UnloadPlugin(plugin_name) ==
    \E r \in {unload_plugin(Mgr, plugin_name, ExtRefs)} :
        /\ SetMgr(r.m)
        /\ SetHolders(r.retired)
        /\ last' = [op |-> "unload_plugin", ret |-> r.ret, stage |-> r.stage,
                    cleanup |-> r.cleanup,
                    evicted |-> Evicted(Mgr, plugin_name, r.m)]

\* manager.discover_plugins() on what is on disk: nothing of the manager
\* changes.
DiscoverPlugins(fs) ==
    /\ last' = [op |-> "discover_plugins", fs |-> fs,
                discovered |-> discover_plugins(plugin_dirs(GivenDirs), fs)]
    /\ UNCHANGED <<mgr_vars, reg_vars, view_vars, repl_vars>>

\* manager.load_all_plugins(), on a manager that holds nothing: it is
\* called as the manager is set up (enhanced_repl.py, lines 10-16).
LoadAllPlugins ==
    /\ loaded_plugins = EmptyDict /\ plugin_commands = EmptyDict
    /\ plugin_info = EmptyDict
    /\ \E fs \in FileSystems :
         \E r \in {load_all_plugins(Mgr, plugin_dirs(GivenDirs), fs, ExtRefs)} :
             /\ SetMgr(r.m)
             /\ SetHolders(r.retired)
             /\ last' = [op |-> "load_all_plugins", completed |-> r.completed,
                         discovered |->
                             [i \in DOMAIN discover_plugins(plugin_dirs(GivenDirs), fs) |->
                                 discover_plugins(plugin_dirs(GivenDirs), fs)[i].name],
                         outcomes |-> r.outcomes, results |-> r.results]

\* EnhancedCommandRegistry(): the registry and, inside it, its manager.
EnhancedInit ==
    /\ ~registry_built
    /\ Mgr = NewManager
    /\ \E fs \in FileSystems :
         \E r \in {setup_plugin_commands(NewManager, fs, ExtRefs)} :
             /\ SetMgr(r.m)
             /\ commands' = r.commands
             /\ registry_built' = TRUE
             /\ last' = [op |-> "enhanced_init", load_results |-> r.load_results]
             /\ UNCHANGED <<view_vars, repl_vars>>

\* A caller takes manager.get_plugin_commands().
GetPluginCommands ==
    /\ cmds_view' = <<get_plugin_commands(Mgr)>>
    /\ last' = [op |-> "get_plugin_commands"]
    /\ UNCHANGED <<mgr_vars, reg_vars, info_view, repl_vars>>

\* The dict a caller's write lands in: its own, or the manager's when both
\* are one object.
WriteCommands(new) ==
    IF cmds_view[1].same_object
    THEN /\ plugin_commands' = new
         /\ cmds_view' = <<[cmds_view[1] EXCEPT !.map = new]>>
    ELSE /\ cmds_view' = <<[cmds_view[1] EXCEPT !.map = new]>>
         /\ UNCHANGED plugin_commands

\* The caller adds or replaces an entry of the mapping it was given.
CallerPutsCommand(name) ==
    /\ cmds_view # <<>>
    /\ WriteCommands(Put(cmds_view[1].map, name, Command(name, "<caller>")))
    /\ last' = [op |-> "caller_puts_command", before |-> get_plugin_commands(Mgr).map]
    /\ UNCHANGED <<loaded_plugins, plugin_info, info_heap, sys_modules, sys_path, reg_vars,
                   info_view, repl_vars>>

\* The caller deletes an entry of the mapping it was given.
CallerDeletesCommand(name) ==
    /\ cmds_view # <<>>
    /\ Has(cmds_view[1].map, name)
    /\ WriteCommands(Del(cmds_view[1].map, name))
    /\ last' = [op |-> "caller_deletes_command", before |-> get_plugin_commands(Mgr).map]
    /\ UNCHANGED <<loaded_plugins, plugin_info, info_heap, sys_modules, sys_path, reg_vars,
                   info_view, repl_vars>>

\* A caller takes manager.get_plugin_info().
GetPluginInfo ==
    /\ info_view' = <<get_plugin_info(Mgr)>>
    /\ info_heap' = Collect(Mgr, Values(plugin_info)).info_heap
    /\ last' = [op |-> "get_plugin_info"]
    /\ UNCHANGED <<loaded_plugins, plugin_commands, plugin_info, sys_modules, sys_path,
                   reg_vars, cmds_view, repl_vars>>

\* The caller adds an entry, a dict of its own, to the mapping it was given.
CallerAddsInfo(name) ==
    /\ info_view # <<>>
    /\ ~Has(info_view[1].map, name)
    /\ LET ref == NewRef(ExtRefs \cup Values(plugin_info), name)
       IN  /\ info_view' = <<[info_view[1] EXCEPT !.map = Put(@, name, ref)]>>
           /\ info_heap' = Put(info_heap, ref,
                               [name |-> "<caller>", version |-> "<caller>",
                                description |-> "<caller>", path |-> "<caller>"])
    /\ last' = [op |-> "caller_adds_info", before |-> InfoItems(Mgr)]
    /\ UNCHANGED <<loaded_plugins, plugin_commands, plugin_info, sys_modules, sys_path,
                   reg_vars, cmds_view, repl_vars>>

\* The caller deletes an entry of the mapping it was given.
CallerDeletesInfo(name) ==
    /\ info_view # <<>>
    /\ Has(info_view[1].map, name)
    /\ info_view' = <<[info_view[1] EXCEPT !.map = Del(@, name)]>>
    /\ info_heap' = Collect(Mgr, Values(Del(info_view[1].map, name))).info_heap
    /\ last' = [op |-> "caller_deletes_info", before |-> InfoItems(Mgr)]
    /\ UNCHANGED <<loaded_plugins, plugin_commands, plugin_info, sys_modules, sys_path,
                   reg_vars, cmds_view, repl_vars>>

\* The caller writes a field of one plugin's metadata record in the mapping
\* it was given: view[name][field] = value.
CallerSetsField(name, field) ==
    /\ info_view # <<>>
    /\ Has(info_view[1].map, name)
    /\ info_heap' = [info_heap EXCEPT ![info_view[1].map[name]][field] = "<changed>"]
    /\ last' = [op |-> "caller_sets_field", before |-> InfoItems(Mgr)]
    /\ UNCHANGED <<loaded_plugins, plugin_commands, plugin_info, sys_modules, sys_path,
                   reg_vars, view_vars, repl_vars>>

\* The number of entries the history of a session is followed to.
MaxLogged == 2

\* engine.start(), up to the first input(): line 158.
Start ==
    /\ registry_built
    /\ engine = "constructed"
    /\ running' = TRUE
    /\ engine' = "in_start"
    /\ last' = [op |-> "start"]
    /\ UNCHANGED <<mgr_vars, reg_vars, view_vars, history>>

\* One pass of the loop and the loop test after it.
LoopPass(input) ==
    /\ engine = "in_start"
    /\ \E r \in {loop_pass(commands, history, input)} :
        /\ Len(r.history) <= MaxLogged
        /\ history' = r.history
        /\ running' = r.running
        /\ engine' = IF r.leaves = "raise" THEN "raised"
                     ELSE IF r.leaves = "break" \/ ~r.running THEN "returned"
                     ELSE "in_start"
        /\ last' = [op |-> "loop_pass", outcome |-> r.outcome]
    /\ UNCHANGED <<mgr_vars, reg_vars, view_vars>>

\* The number of entries a HistoryTracker is filled to.
MaxHistory == 12

\* The entries a HistoryTracker is filled with.
SomeEntries == {<<"add", <<"1", "2">>, "number", TRUE>>, <<"bogus", <<"1">>, "Unknown command", FALSE>>}

\* history_tracker.add_entry(...)
AddEntry(e) ==
    /\ Len(history) < MaxHistory
    /\ history' = add_entry(history, e[1], e[2], e[3], e[4])
    /\ last' = [op |-> "add_entry"]
    /\ UNCHANGED <<mgr_vars, reg_vars, view_vars, running, engine>>

\* engine._show_history()
ShowHistory ==
    /\ last' = [op |-> "show_history", shown |-> show_history(history)]
    /\ UNCHANGED <<mgr_vars, reg_vars, view_vars, repl_vars>>

\* history_tracker.clear_history()
ClearHistory ==
    /\ history # <<>>
    /\ history' = clear_history(history)
    /\ last' = [op |-> "clear_history"]
    /\ UNCHANGED <<mgr_vars, reg_vars, view_vars, running, engine>>

Next ==
    \/ LoadAllPlugins
    \/ \E i \in LoadInputs : LoadPlugin(i[1], i[2])
    \/ \E c \in Candidates : UnloadPlugin(c)

Spec == Init /\ [][Next]_vars

\* discover_plugins alone, over directories with children of every kind.
NextDiscovery == \E fs \in DiscoveryFileSystems : DiscoverPlugins(fs)

SpecDiscovery == Init /\ [][NextDiscovery]_vars

\* The calls of load_plugin next to the registry and next to a caller of the
\* query methods.
GoodInputs ==
    {<<"statistics_plugin", File(s)>> : s \in {"statistics", "meta_raise"}}
    \cup {<<"scientific_plugin", File(s)>> : s \in {"scientific", "mean_like"}}

\* The program as it starts, and the manager's methods called afterwards.
NextRegistry ==
    \/ EnhancedInit
    \/ registry_built /\ \E i \in GoodInputs : LoadPlugin(i[1], i[2])
    \/ registry_built /\ \E c \in Candidates : UnloadPlugin(c)

SpecRegistry == Init /\ [][NextRegistry]_vars

\* A manager and a caller of get_plugin_commands().
NextCommandsQuery ==
    \/ \E i \in GoodInputs : LoadPlugin(i[1], i[2])
    \/ \E c \in Candidates : UnloadPlugin(c)
    \/ GetPluginCommands
    \/ \E n \in CmdNames : CallerPutsCommand(n)
    \/ \E n \in CmdNames : CallerDeletesCommand(n)

SpecCommandsQuery == Init /\ [][NextCommandsQuery]_vars

\* A manager and a caller of get_plugin_info().
NextInfoQuery ==
    \/ \E i \in GoodInputs : LoadPlugin(i[1], i[2])
    \/ \E c \in Candidates : UnloadPlugin(c)
    \/ GetPluginInfo
    \/ \E c \in Candidates : CallerAddsInfo(c)
    \/ \E c \in Candidates : CallerDeletesInfo(c)
    \/ \E c \in Candidates : CallerSetsField(c, "version")

SpecInfoQuery == Init /\ [][NextInfoQuery]_vars

\* The program: the engine is made with its registry, started, and fed input.
NextRepl ==
    \/ EnhancedInit
    \/ Start
    \/ \E input \in Inputs : LoopPass(input)

SpecRepl == Init /\ [][NextRepl]_vars

\* A HistoryTracker and the display.
NextHistory ==
    \/ \E e \in SomeEntries : AddEntry(e)
    \/ ShowHistory
    \/ ClearHistory

SpecHistory == Init /\ [][NextHistory]_vars

-----------------------------------------------------------------------------
(* The claims *)

\* The names a plugin's get_commands() contributes.
CommandNames(src) ==
    {Behaviour(src).cmds[i] : i \in DOMAIN Behaviour(src).cmds} \ {NameRaises}

\* Every step of a load succeeds for this module.
EveryStepSucceeds(module) ==
    LET b == Behaviour(module)
    IN  /\ b.import = "ok" /\ b.has_class /\ b.ctor = "ok" /\ b.initialize = "true"
        /\ b.metadata = "ok" /\ b.get_commands = "ok"
        /\ \A i \in DOMAIN b.cmds : b.cmds[i] # NameRaises

\* C1: every command in plugin_commands was made by a plugin instance that
\* loaded_plugins holds now.
C1_CommandsTraceToLoadedPlugins ==
    \A n \in DOMAIN plugin_commands : plugin_commands[n].plugin \in DOMAIN loaded_plugins

\* C2: an unload_plugin(p) that returns True leaves no command under any name
\* p contributes, whoever made the command found there, leaves every other
\* name with the command it had, and leaves p in neither loaded_plugins nor
\* plugin_info.
C2_UnloadRemovesByName ==
    \A p \in DOMAIN loaded_plugins :
        LET r == unload_plugin(Mgr, p, ExtRefs)
            names == CommandNames(loaded_plugins[p].src)
        IN  r.ret = "true" =>
              /\ \A n \in names : ~Has(r.m.plugin_commands, n)
              /\ \A n \in (DOMAIN plugin_commands) \ names :
                    Has(r.m.plugin_commands, n)
                    /\ r.m.plugin_commands[n] = plugin_commands[n]
              /\ DOMAIN r.m.plugin_commands \subseteq DOMAIN plugin_commands
              /\ ~Has(r.m.loaded_plugins, p)
              /\ ~Has(r.m.plugin_info, p)

\* An unload has returned True and took a command another plugin had made.
C2_Witness ==
    /\ last.op = "unload_plugin" /\ last.ret = "true" /\ last.evicted # {}

\* C3: unload_plugin of a name that is not in loaded_plugins returns False,
\* leaves the manager as it was and calls no plugin's cleanup().
C3_UnloadNotLoadedIsNoOp ==
    \A p \in Candidates \ DOMAIN loaded_plugins :
        LET r == unload_plugin(Mgr, p, ExtRefs)
        IN  r.ret = "false" /\ r.m = Mgr /\ r.cleanup_called = {}

\* unload_plugin has been called with a name that is not loaded while the
\* other plugin is loaded with its commands.
C3_Witness ==
    /\ last.op = "unload_plugin" /\ last.stage = "not_loaded"
    /\ loaded_plugins # EmptyDict /\ plugin_commands # EmptyDict

\* C4: an unload_plugin whose plugin's cleanup() returned False returns False.
C4_CleanupFalseFailsUnload ==
    (last.op = "unload_plugin" /\ last.cleanup = "false") => last.ret = "false"

\* C5: a load_plugin whose initialize() returns False or raises returns False
\* and leaves loaded_plugins, plugin_info and plugin_commands as they were.
C5_FailedInitializeLoadsNothing ==
    \A i \in LoadInputs :
        LET r == load_plugin(Mgr, i[1], i[2], ExtRefs)
        IN  r.initialize \in {"false", "raise"} =>
              /\ r.ret = "false"
              /\ r.m.loaded_plugins = loaded_plugins
              /\ r.m.plugin_info = plugin_info
              /\ r.m.plugin_commands = plugin_commands

\* A load has failed on initialize() returning False, next to a loaded plugin.
C5_Witness ==
    /\ last.op = "load_plugin" /\ last.initialize = "false" /\ last.ret = "false"
    /\ loaded_plugins # EmptyDict

\* C6: load_plugin lets no exception out; it returns False when a step of
\* the load fails and True only when every step succeeded.
C6_LoadNeverRaises ==
    \A i \in LoadInputs :
        LET r == load_plugin(Mgr, i[1], i[2], ExtRefs)
        IN  /\ r.ret \in {"true", "false"}
            /\ (r.ret = "true") = EveryStepSucceeds(r.module)

\* A load has failed in a command's get_name(), the last step, and returned
\* False.
C6_Witness ==
    /\ last.op = "load_plugin" /\ last.stage = "get_name" /\ last.ret = "false"

\* The last candidate discovered under the name of the i-th.
LastOf(discovered, i) ==
    CHOOSE j \in DOMAIN discovered :
        /\ discovered[j] = discovered[i]
        /\ \A k \in DOMAIN discovered : discovered[k] = discovered[i] => k <= j

\* C7 as stated: load_all_plugins completes, attempts every discovered
\* candidate, and the result holds under each candidate's name the outcome
\* of loading that candidate.
C7_ResultHoldsEachOutcome ==
    last.op = "load_all_plugins" =>
        /\ last.completed
        /\ Len(last.outcomes) = Len(last.discovered)
        /\ \A i \in DOMAIN last.discovered :
              /\ Has(last.results, last.discovered[i])
              /\ last.results[last.discovered[i]] = last.outcomes[i]

\* C7 as amended: load_all_plugins completes, attempts every discovered
\* candidate, and the result's keys are the discovered names, each with the
\* outcome of the last candidate discovered under that name.
C7_ResultHoldsLastOutcome ==
    last.op = "load_all_plugins" =>
        /\ last.completed
        /\ Len(last.outcomes) = Len(last.discovered)
        /\ DOMAIN last.results = {last.discovered[i] : i \in DOMAIN last.discovered}
        /\ \A i \in DOMAIN last.discovered :
              last.results[last.discovered[i]] =
                  last.outcomes[LastOf(last.discovered, i)]

\* load_all_plugins has loaded a candidate after one that failed, and two
\* candidates of one name came out differently.
C7_Witness ==
    /\ last.op = "load_all_plugins"
    /\ \E i, j \in DOMAIN last.discovered :
          /\ i < j /\ last.discovered[i] = last.discovered[j]
          /\ last.outcomes[i] = "false" /\ last.outcomes[j] = "true"

\* C8: nothing a caller does through the value get_plugin_info() returned
\* (adding an entry, deleting an entry, writing a field of a plugin's
\* metadata record) changes what the manager's plugin_info says.
C8_CallerCannotChangeInfo ==
    last.op \in {"caller_adds_info", "caller_deletes_info", "caller_sets_field"}
        => InfoItems(Mgr) = last.before

\* C9: adding, replacing or deleting entries of the mapping
\* get_plugin_commands() returned leaves the manager's plugin_commands, and
\* so what the next get_plugin_commands() returns, as before the mutation.
C9_CallerCannotChangeCommands ==
    last.op \in {"caller_puts_command", "caller_deletes_command"}
        => get_plugin_commands(Mgr).map = last.before

\* A caller has deleted an entry of the mapping it was given while the
\* manager holds commands, and the two mappings differ now.
C9_Witness ==
    /\ last.op = "caller_deletes_command"
    /\ plugin_commands # EmptyDict
    /\ cmds_view[1].map # plugin_commands

\* C10: once the registry is set up, a name that resolves in it to a command
\* a plugin made resolves to a command of a plugin instance that
\* loaded_plugins holds now.
C10_RegisteredOnlyWhileLoaded ==
    registry_built =>
        \A t \in TypedNames :
            \A c \in {get_command(commands, t)} :
                (c # <<>> /\ c[1].plugin # Core) => c[1].plugin \in DOMAIN loaded_plugins

\* C11: a load_plugin that returns True, called once more with the same
\* name and path, returns True again and leaves the command names of
\* plugin_commands and the keys of loaded_plugins and plugin_info as the
\* first call left them.
C11_ReloadIsIdempotent ==
    \A i \in LoadInputs :
        \A r1 \in {load_plugin(Mgr, i[1], i[2], ExtRefs)} :
            r1.ret = "true" =>
                \A r2 \in {load_plugin(r1.m, i[1], i[2], ExtRefs)} :
                    /\ r2.ret = "true"
                    /\ DOMAIN r2.m.plugin_commands = DOMAIN r1.m.plugin_commands
                    /\ DOMAIN r2.m.loaded_plugins = DOMAIN r1.m.loaded_plugins
                    /\ DOMAIN r2.m.plugin_info = DOMAIN r1.m.plugin_info

\* A plugin has been loaded under a name that held an instance of the same
\* module, next to another loaded plugin.
C11_Witness ==
    /\ last.op = "load_plugin" /\ last.ret = "true" /\ last.reload
    /\ Cardinality(DOMAIN loaded_plugins) = 2
    /\ plugin_commands # EmptyDict

\* C12: a load_plugin that returns True leaves under each name its plugin
\* contributes the command the new instance made, whatever was under the
\* name before, and a name already taken is no reason for it to fail;
\* register_command leaves the command it is given under its name, one
\* entry, and every other entry as it was.
C12_LastRegisteredWins ==
    /\ \A i \in LoadInputs :
          \A r \in {load_plugin(Mgr, i[1], i[2], ExtRefs)} :
              /\ EveryStepSucceeds(r.module) => r.ret = "true"
              /\ r.ret = "true" =>
                    \A n \in CommandNames(r.module) :
                        /\ Has(r.m.plugin_commands, n)
                        /\ r.m.plugin_commands[n] = Command(n, i[1])
    /\ \A n \in (DOMAIN commands) \cup {"bogus"} :
          \A c \in {Command(n, "<new>")} :
              \A reg \in {register_command(commands, c)} :
                  /\ DOMAIN reg = (DOMAIN commands) \cup {n}
                  /\ reg[n] = c
                  /\ \A k \in (DOMAIN commands) \ {n} : reg[k] = commands[k]

\* With the registry set up, a plugin has been loaded whose command took
\* the name under which another loaded plugin had registered its own.
C12_Witness ==
    /\ registry_built
    /\ last.op = "load_plugin" /\ last.ret = "true"
    /\ Has(loaded_plugins, "statistics_plugin")
    /\ "mean" \in CommandNames(loaded_plugins["statistics_plugin"].src)
    /\ Has(plugin_commands, "mean")
    /\ plugin_commands["mean"].plugin = "scientific_plugin"

\* A candidate the claim calls valid: its module has a conforming plugin
\* class that is instantiated and whose initialize() succeeds.
ValidCandidate(src) ==
    LET b == Behaviour(src)
    IN  b.import = "ok" /\ b.has_class /\ b.ctor = "ok" /\ b.initialize = "true"

\* The manager holds nothing, as when load_all_plugins is called.
NothingLoaded ==
    loaded_plugins = EmptyDict /\ plugin_commands = EmptyDict /\ plugin_info = EmptyDict

\* The names of the candidates, in the order of discovery.
NamesOf(discovered) == [i \in DOMAIN discovered |-> discovered[i].name]

\* C13 as stated: after load_all_plugins the result records True for every
\* discovered candidate with a conforming plugin class whose initialize()
\* succeeds, and every command name of its get_commands() is a key of
\* get_plugin_commands().
C13_ValidCandidatesLoaded ==
    NothingLoaded =>
        \A fs \in FileSystems :
            \A d \in {discover_plugins(plugin_dirs(GivenDirs), fs)} :
                \A r \in {load_all_plugins(Mgr, plugin_dirs(GivenDirs), fs, ExtRefs)} :
                    \A i \in DOMAIN d :
                        ValidCandidate(d[i].path.src) =>
                            /\ Has(r.results, d[i].name)
                            /\ r.results[d[i].name] = "true"
                            /\ CommandNames(d[i].path.src)
                                  \subseteq DOMAIN get_plugin_commands(r.m).map

\* C13 as amended: after load_all_plugins the result records True under a
\* name exactly when every step of load_plugin succeeds for the last
\* candidate discovered under that name, and the command names of every
\* candidate for which every step succeeds are keys of get_plugin_commands().
C13_LoadedCandidatesRecorded ==
    NothingLoaded =>
        \A fs \in FileSystems :
            \A d \in {discover_plugins(plugin_dirs(GivenDirs), fs)} :
                \A r \in {load_all_plugins(Mgr, plugin_dirs(GivenDirs), fs, ExtRefs)} :
                    \A i \in DOMAIN d :
                        /\ Has(r.results, d[i].name)
                        /\ (r.results[d[i].name] = "true")
                              = EveryStepSucceeds(d[LastOf(NamesOf(d), i)].path.src)
                        /\ EveryStepSucceeds(d[i].path.src) =>
                              CommandNames(d[i].path.src)
                                  \subseteq DOMAIN get_plugin_commands(r.m).map

\* load_all_plugins has loaded a candidate and then failed on a later one
\* of the same name: the result reads False under the name while the
\* commands of the first are registered.
C13_Witness ==
    /\ last.op = "load_all_plugins"
    /\ \E i, j \in DOMAIN last.discovered :
          /\ i < j /\ last.discovered[i] = last.discovered[j]
          /\ last.outcomes[i] = "true" /\ last.outcomes[j] = "false"
          /\ last.results[last.discovered[i]] = "false"
    /\ plugin_commands # EmptyDict

\* C14: start() is left only after the terminate sentinel or end-of-input;
\* after every other pass of the loop the engine is running and in the loop.
C14_LeavesOnlyOnSentinelOrEof ==
    last.op = "loop_pass" =>
        IF last.outcome \in {"EXIT", "eof"}
        THEN engine = "returned"
        ELSE engine = "in_start" /\ running

\* C15: whenever start() has returned, the running flag is False.
C15_StoppedWhenStartReturns ==
    engine = "returned" => ~running

\* The history after a pass is the history before it and k entries more.
Grows(before, after, k) ==
    /\ Len(after) = Len(before) + k
    /\ SubSeq(after, 1, Len(before)) = before

\* C16: a pass of the loop adds no entry for a blank line, for the line
\* "history" in any letter case and for a command that returns the
\* terminate sentinel; one entry with success False for an unknown command
\* name and for a command that raises ValueError; one entry with success
\* True for a command that returns a result; and never more than one.
C16_HistoryGrowthPerLine ==
    engine = "in_start" =>
        \A l \in Lines :
            \A r \in {loop_pass(commands, history, [kind |-> "line", line |-> l])} :
                /\ Len(r.history) <= Len(history) + 1
                /\ IF l = <<>> THEN Grows(history, r.history, 0)
                   ELSE IF Len(l) = 1 /\ Lower(l[1]) = "history"
                   THEN Grows(history, r.history, 0)
                   ELSE IF get_command(commands, l[1]) = <<>>
                   THEN /\ Grows(history, r.history, 1)
                        /\ ~r.history[Len(r.history)].success
                   ELSE \A x \in {Execute(get_command(commands, l[1])[1], Tail(l))} :
                            IF x.raised
                            THEN x.kind = "ValueError" =>
                                    /\ Grows(history, r.history, 1)
                                    /\ ~r.history[Len(r.history)].success
                            ELSE IF x.kind = "EXIT" THEN Grows(history, r.history, 0)
                            ELSE /\ Grows(history, r.history, 1)
                                 /\ r.history[Len(r.history)].success

\* A command has raised ValueError after one that returned a result: the
\* history holds a successful entry and then a failed one.
C16_Witness ==
    /\ last.op = "loop_pass" /\ last.outcome = "ValueError"
    /\ Len(history) = 2
    /\ history[1].success /\ ~history[2].success

\* C17: the stored history only grows: after every step it is at least as
\* long as before and every entry it had is where it was, unchanged.
C17_HistoryAppendOnly ==
    [][/\ Len(history') >= Len(history)
       /\ SubSeq(history', 1, Len(history)) = history]_vars

\* C18: the display of n recorded entries shows min(n, 10) of them, the
\* last 10 in the order they were recorded, and the count n - 10 of the
\* others exactly when n > 10.
C18_DisplayShowsLastTen ==
    \A d \in {show_history(history)} :
        \A n \in {Len(history)} :
            /\ Len(d.entries) = (IF n < 10 THEN n ELSE 10)
            /\ \A i \in 1 .. Len(d.entries) :
                  d.entries[i] = history[n - Len(d.entries) + i]
            /\ d.more = (IF n > 10 THEN <<n - 10>> ELSE <<>>)

\* The display has run on a history of 12 entries, of both kinds, and
\* reported 2 more.
C18_Witness ==
    /\ last.op = "show_history"
    /\ Len(history) = 12
    /\ last.shown.more = <<2>>
    /\ history[1].success /\ ~history[12].success

\* C19: every key of the registry is lower-case, and a registered command
\* is what get_command returns for its name typed in any letter case.
C19_KeysAreLowerCase ==
    registry_built =>
        \A k \in DOMAIN commands :
            /\ Lower(k) = k
            /\ \A typed \in TypedNames \cup {k} :
                  Lower(typed) = Lower(k) => get_command(commands, typed) = <<commands[k]>>

\* C20: once the registry is set up, every built-in name maps to the
\* command _setup_basic_commands put there, and "menu" to the menu command.
C20_BuiltinsPresent ==
    registry_built =>
        /\ \A n \in DOMAIN setup_basic_commands :
              Has(commands, n) /\ commands[n] = setup_basic_commands[n]
        /\ Has(commands, "menu") /\ commands["menu"] = Command("menu", Core)


\* Package-form candidates of every source, for either candidate name.
PackageInputs == {<<c, Package(src)>> : c \in Candidates, src \in Sources}

\* C21: load_plugin leaves the module search path as it found it: for a
\* package-form candidate, whether the import succeeds, the import raises or
\* a later stage fails, and for a single-file candidate, sys.path after the
\* call equals sys.path before it, element for element.
C21_SearchPathRestored ==
    \A i \in LoadInputs \cup PackageInputs :
        \A r \in {load_plugin(Mgr, i[1], i[2], ExtRefs)} :
            r.m.sys_path = sys_path

\* A package-form candidate whose import raised has been through load_plugin.
C21_Witness ==
    /\ last.op = "load_plugin" /\ last.package
    /\ last.stage = "import" /\ last.ret = "false"
    /\ sys_path = StartPath

\* C22: in the loop of start(), whenever the execute of a command fails on
\* the typed arguments, what it raises is a ValueError, and the pass of the
\* loop on that line logs one failed history entry and leaves the engine
\* running and in the loop.
C22_ExecuteFailuresAreRecoverable ==
    engine = "in_start" =>
        \A line \in Lines \ {<<>>} :
            \A c \in {get_command(commands, Lower(line[1]))} :
                (c # <<>> /\ ~IsHistoryLine(line) /\ Execute(c[1], Tail(line)).raised) =>
                    /\ Execute(c[1], Tail(line)).kind = "ValueError"
                    /\ \A r \in {loop_pass(commands, history,
                                           [kind |-> "line", line |-> line])} :
                           /\ r.leaves = "continue" /\ r.running
                           /\ Len(r.history) = Len(history) + 1
                           /\ ~r.history[Len(r.history)].success

\* C23: discover_plugins returns, directory after directory and in listing
\* order, one candidate per child file whose name ends in ".py" other than
\* "__init__.py", named by the filename without the suffix, and one per
\* child directory that holds an "__init__.py", named by the directory
\* name, and nothing else; a directory that does not exist gives nothing.
C23_DiscoversExactlyTheCandidates ==
    LET OfItem(item) ==
            IF ~item.isdir /\ item.ext = ".py" /\ Item(item) # "__init__.py"
            THEN <<[name |-> item.stem, path |-> File(item.src)]>>
            ELSE IF item.isdir /\ item.has_init
            THEN <<[name |-> Item(item), path |-> Package(item.src)]>>
            ELSE <<>>
        RECURSIVE OfListing(_)
        OfListing(listing) ==
            IF listing = <<>> THEN <<>>
            ELSE OfItem(Head(listing)) \o OfListing(Tail(listing))
        OfDir(d) == IF d.exists THEN OfListing(d.listing) ELSE <<>>
    IN  last.op = "discover_plugins" =>
            last.discovered = OfDir(last.fs["extra"]) \o OfDir(last.fs["default"])

\* C24: after every sequence of load_plugin and unload_plugin calls, those
\* that returned False included, loaded_plugins and plugin_info have the
\* same plugin names as keys.
C24_SameKeys ==
    DOMAIN loaded_plugins = DOMAIN plugin_info

\* C25: unload_plugin is all-or-nothing: whenever it returns False for a
\* plugin that loaded_plugins holds, loaded_plugins, plugin_info and
\* plugin_commands are as they were before the call.
C25_FailedUnloadChangesNothing ==
    \A plugin_name \in DOMAIN loaded_plugins :
        \A r \in {unload_plugin(Mgr, plugin_name, ExtRefs)} :
            r.ret = "false" =>
                /\ r.m.loaded_plugins = loaded_plugins
                /\ r.m.plugin_info = plugin_info
                /\ r.m.plugin_commands = plugin_commands

====
